---- MODULE Spec2Model ----
(***************************************************************************)
(* Memory Space: a collection of photo "memories" shown as a rotatable     *)
(* sphere of orbs, a stacked gallery and a looping "world" slideshow.      *)
(*                                                                         *)
(* The module models the stores (memoryStore, galleryStore, worldStore,    *)
(* viewStore), the managers that write them (MemoryManager, GalleryManager,*)
(* WorldManager, ViewManager), the gesture handlers of GalleryView and the *)
(* rotation algebra shared by OrbView, MemoryOrb and getFrontAndCenterPos. *)
(***************************************************************************)
EXTENDS Integers, Sequences, FiniteSets, TLC

(***************************************************************************)
(* Bounds of the model.                                                    *)
(***************************************************************************)
\* number of files handed to uploadFiles, summed over all its calls
MaxFiles == 4
\* number of setInterval calls
MaxIntervals == 3
\* pending isDragging reset timeouts
MaxResets == 2
\* largest magnitude the wheel accumulator is followed to
MaxWheel == 100
\* positions on the scrollbar track a pointer-down is tried at (0..ScrollSteps)
ScrollSteps == 4
\* number of expandMemoryDescription calls that get past their early return
MaxExpands == 2

\* the raw yaw of the sphere stays within MaxYaw tenths of a degree
MaxYaw == 1200

\* an axis of the orb's spin stays within MaxSpin tenths of a degree
MaxSpin == 3600

\* setActiveIndex is called with arguments from -MaxArg to MaxArg
MaxArg == 40

(***************************************************************************)
(* Program constants.                                                      *)
(***************************************************************************)
\* RAW_MEMORY_DATA.length
NumSeed == 12
\* GalleryView ITEM_SPACING: pixels between items
ITEM_SPACING == 280
\* GalleryView VISIBLE_RANGE: items rendered on each side of the active one
VISIBLE_RANGE == 3
\* onPanEnd VELOCITY_THRESHOLD
VELOCITY_THRESHOLD == 300
\* handleWheel THRESHOLD
WHEEL_THRESHOLD == 60
\* Math.PI, in millionths of a radian (the unit of every phi below)
PI == 3141593
\* the 0.1 of the phi clamp of uploadFiles
PHI_MARGIN == 100000
\* spread of uploadFiles (0.3)
SPREAD == 300000
\* /[\u4e00-\u9fa5]/: the two ends of the character class
CJK_FIRST == 19968
CJK_LAST == 40869
\* U+3002, the last character of every description of RAW_MEMORY_DATA
IDEOGRAPHIC_FULL_STOP == 12290
\* ".", the last character of the placeholder and of the fallback strings
FULL_STOP == 46
\* " ", the separator
SPACE == 32
\* dynamicOpacity: the output range 0.4 .. 1 of mapRange, in thousandths
OPACITY_FLOOR == 400
OPACITY_FULL == 1000
\* the pitch clamp of OrbView.handlePointerMove, in degrees
MAX_PITCH == 85

\* the grid of snapToBalance, in degrees
FULL_TURN == 360

VARIABLES
    memories,       \* useMemoryStore.memories: sequence of Memory records
    galleryIndex,   \* useGalleryStore.activeIndex
    worldIndex,     \* useWorldStore.activeIndex
    calls,          \* the uploadFiles invocations: their files, locals and position
    nextUuid,       \* number of ids drawn from uuidv4 so far
    viewMode,       \* useViewStore.viewMode
    mountedViews,   \* the views AnimatePresence keeps mounted (current and exiting)
    isPlaying,      \* useWorldStore.isPlaying
    autoPlayInterval, \* WorldManager.autoPlayInterval: a timer handle or Null
    timers,         \* the interval timers scheduled in the host
    timerSeq,       \* number of handles setInterval has returned so far
    indexMV,        \* GalleryView indexMV: target of the continuous index, in 1/IndexUnit
    panActive,      \* a pan gesture on GalleryView is in progress
    panOffset,      \* info.offset.y of the gesture in progress (pixels)
    isDragging,     \* GalleryView isDragging.current
    dragResets,     \* pending setTimeout callbacks that clear isDragging
    wheelAccumulator, \* GalleryView wheelAccumulator.current
    rotX,           \* OrbView smoothRotateX: the camera pitch, an exact angle
    rotY,           \* OrbView smoothRotateY: the camera yaw, an exact angle
    orbTheta,       \* memory.theta of the orb that is looked at, an exact angle
    orbPhi,         \* memory.phi of the orb that is looked at, an exact angle
    clock,          \* the value Date.now() returned last (0 at loadInitialMemories)
    selectedMemoryId, \* useMemoryStore.selectedMemoryId: a memory id or Null
    isProcessing,   \* useMemoryStore.isProcessing
    expands,        \* the expandMemoryDescription calls: id, currentDesc and position
    rotationX,      \* OrbView rotationX: the raw pitch, in tenths of a degree
    rotationY,      \* OrbView rotationY: the raw yaw, in tenths of a degree
    orbViewDragging, \* OrbView isDragging.current
    cameraRotation, \* useOrbStore.cameraRotation: <<x, y>> in tenths of a degree
    isGravityMode,  \* useOrbStore.isGravityMode
    orbRotationX,   \* MemoryOrb orbRotationX of one orb, in tenths of a degree
    orbRotationY,   \* MemoryOrb orbRotationY of that orb, in tenths of a degree
    isDraggingRef   \* MemoryOrb isDraggingRef.current of that orb

uploadVars == <<memories, galleryIndex, worldIndex, calls, nextUuid>>
viewVars == <<viewMode, mountedViews>>
worldVars == <<isPlaying, autoPlayInterval, timers, timerSeq>>
galleryVars == <<indexMV, panActive, panOffset, isDragging, dragResets, wheelAccumulator>>
orbVars == <<rotX, rotY, orbTheta, orbPhi>>
modalVars == <<selectedMemoryId, isProcessing, expands>>
sphereVars == <<rotationX, rotationY, orbViewDragging, cameraRotation,
                isGravityMode, orbRotationX, orbRotationY, isDraggingRef>>

(***************************************************************************)
(* Descriptions are sequences of text tokens; a token is a triple          *)
(* <<kind, call, file>>.  A caption returned by the caption service for    *)
(* the bytes of file <<c, i>> is the token <<"caption", c, i>>.            *)
(***************************************************************************)
\* "正在唤醒记忆..."
Placeholder == << <<"placeholder", 0, 0>> >>
\* "记忆模糊..."  (catch block of uploadFiles)
ReadFallback == << <<"read-fallback", 0, 0>> >>
\* "一段模糊的记忆..."  (response.text empty)
EmptyFallback == << <<"empty-fallback", 0, 0>> >>
\* "无法触及的记忆片段..."  (catch block of interpretMemory)
ServiceFallback == << <<"service-fallback", 0, 0>> >>
\* the text the service generates for the image bytes of file <<c, i>>
CaptionText(c, i) == << <<"caption", c, i>> >>
\* description of the k-th entry of RAW_MEMORY_DATA
SeedText(k) == << <<"seed", 0, k>> >>

\* file.type.startsWith('image/')
IsImage(file) == file = "image"

\* the value of newMemories[i] when i is past the end of the array
Undefined == 0

\* null (a timer handle is a positive number)
Null == 0

(***************************************************************************)
(* memoryStore                                                             *)
(***************************************************************************)
\* loadInitialMemories: one record per entry of RAW_MEMORY_DATA
\* getFibonacciPos(index, 12).phi = Math.acos(1 - 2 * (index + 0.5) / 12) for
\* index = 0..11, i.e. the arc cosines of 11/12, 9/12, ..., -11/12
SeedPhi ==
    <<411138, 722734, 947970, 1141021, 1318116, 1487366,
      1654226, 1823477, 2000572, 2193623, 2418858, 2730455>>

\* simulatedTime = Date.now() - Math.random() * (one year): a time at or
\* before the load, drawn independently for each entry; the draws followed
\* here put the entries in a scrambled order and the last one at the load time
SeedTime(k) == -((5 * k) % NumSeed)

SeedMemories ==
    [k \in 1..NumSeed |->
        [id |-> k, url |-> <<0, k>>, description |-> SeedText(k),
         timestamp |-> SeedTime(k), phi |-> SeedPhi[k],
         isAnalyzing |-> FALSE]]

\* [...memories].sort((a, b) => a.timestamp - b.timestamp): Array.prototype.sort
\* is stable, so records of equal timestamp keep their order
SortedRank(mems, k) ==
    1 + Cardinality({j \in 1..Len(mems) :
            \/ mems[j].timestamp < mems[k].timestamp
            \/ mems[j].timestamp = mems[k].timestamp /\ j < k})

SortedMemories(mems) ==
    [p \in 1..Len(mems) |-> mems[CHOOSE k \in 1..Len(mems) : SortedRank(mems, k) = p]]

\* addMemories with the two spreads swapped (new records in front)
AddMemories_Prepend(mems, newMemories) == newMemories \o mems

\* addMemories: memories: [...state.memories, ...newMemories]
AddMemories(mems, newMemories) == mems \o newMemories

\* updateMemory: patch the records whose id matches, leave the others
UpdateMemory(mems, id, description, isAnalyzing) ==
    [k \in 1..Len(mems) |->
        IF mems[k].id = id
        THEN [mems[k] EXCEPT !.description = description,
                             !.isAnalyzing = isAnalyzing]
        ELSE mems[k]]

(***************************************************************************)
(* Rotation algebra of OrbView, MemoryOrb and getFrontAndCenterPos.        *)
(*                                                                         *)
(* An angle is kept as the pair <<c, s>> with cos = c / Den, sin = s / Den *)
(* and c * c + s * s = Den * Den.  The 3-4-5 triangle gives twelve such    *)
(* angles with integer c and s: 0, 90, 180, 270 degrees and               *)
(* +-36.87, +-53.13, +-126.87, +-143.13 degrees.  All products below are   *)
(* exact integers, scaled by the power of Den each definition names.       *)
(***************************************************************************)
Max(a, b) == IF a >= b THEN a ELSE b
Min(a, b) == IF a <= b THEN a ELSE b

Triple == <<3, 4, 5>>
Den == Triple[3]

Angles == {a \in (-Den..Den) \X (-Den..Den) : a[1] * a[1] + a[2] * a[2] = Den * Den}
Angle0 == <<Den, 0>>

\* Math.cos, Math.sin of an angle, times Den
Cos(a) == a[1]
Sin(a) == a[2]

\* (v) => -v
Neg(a) == <<a[1], -a[2]>>

\* the pitch values OrbView lets through: Math.max(-85, Math.min(85, newRotX))
PitchAngles == {a \in Angles : Cos(a) > 0}

\* memory.phi lies strictly between the poles
PhiAngles == {a \in Angles : Sin(a) > 0}

\* sphereRadius of the orb store
Radius == 350

\* MemoryOrb: static cartesian position of a memory
Position(theta, phi) ==
    <<(Radius * Sin(phi) * Cos(theta)) \div (Den * Den),
      (Radius * Cos(phi)) \div Den,
      (Radius * Sin(phi) * Sin(theta)) \div (Den * Den)>>

\* MemoryOrb projectedZ: z_final, times Den * Den
ProjectedZ(pos, rX, rY) ==
    LET z_after_x == pos[2] * Sin(rX) + pos[3] * Cos(rX)
    IN  z_after_x * Cos(rY) - pos[1] * Sin(rY) * Den

\* mapRange, with the division rounded down
MapRange(value, inMin, inMax, outMin, outMax) ==
    ((value - inMin) * (outMax - outMin)) \div (inMax - inMin) + outMin

\* dynamicOpacity in thousandths, for z and radius in the same unit:
\* mapRange(safeZ, -radius * 0.8, radius * 0.8, 0.4, 1)
DynamicOpacity(z, radius) ==
    LET safeZ == Max(-radius, Min(radius, z))
    IN  MapRange(safeZ, -((radius * 8) \div 10), (radius * 8) \div 10,
                 OPACITY_FLOOR, OPACITY_FULL)

\* 3 x 3 matrices are triples of rows
MatMul(A, B) ==
    [i \in 1..3 |-> [j \in 1..3 |->
        A[i][1] * B[1][j] + A[i][2] * B[2][j] + A[i][3] * B[3][j]]]

MatVec(A, v) ==
    [i \in 1..3 |-> A[i][1] * v[1] + A[i][2] * v[2] + A[i][3] * v[3]]

ScaledIdentity(k) == <<<<k, 0, 0>>, <<0, k, 0>>, <<0, 0, k>>>>

\* CSS rotateX(a), times Den
RotateX(a) == <<<<Den, 0, 0>>, <<0, Cos(a), -Sin(a)>>, <<0, Sin(a), Cos(a)>>>>

\* CSS rotateY(a), times Den
RotateY(a) == <<<<Cos(a), 0, Sin(a)>>, <<0, Den, 0>>, <<-Sin(a), 0, Cos(a)>>>>

\* OrbView: the outer container has rotateX, the inner one rotateY; the
\* transform a child sees is the product outer * inner (times Den^2)
ContainerRotation(rX, rY) == MatMul(RotateX(rX), RotateY(rY))

\* MemoryOrb counter-rotation wrapper: transformTemplate gives
\* `rotateX(-x) rotateY(-y)` (times Den^2)
CounterRotation(rX, rY) == MatMul(RotateX(Neg(rX)), RotateY(Neg(rY)))

\* the rotation of the image plane on screen (times Den^4)
BillboardRotation(rX, rY) == MatMul(ContainerRotation(rX, rY), CounterRotation(rX, rY))

\* Math.acos of y / Den
Acos(y) == CHOOSE a \in Angles : Cos(a) = y /\ Sin(a) >= 0

\* Math.atan2(z, x): the angle of the direction (x, z); 0 for the null vector
Atan2(z, x) ==
    IF x = 0 /\ z = 0 THEN Angle0
    ELSE CHOOSE a \in Angles :
            /\ Cos(a) * z = Sin(a) * x
            /\ Cos(a) * x + Sin(a) * z > 0

\* getFrontAndCenterPos
GetFrontAndCenterPos(rX, rY) ==
    LET x == -Cos(rX) * Sin(rY)
        y == Sin(rX)
        z == Cos(rX) * Cos(rY)
        clampedY == Max(-Den, Min(Den, y))
    IN  [theta |-> Atan2(z, x), phi |-> Acos(clampedY)]

(***************************************************************************)
(* GalleryView: the continuous index                                       *)
(***************************************************************************)
\* indexMV is kept as an integer number of 1/IndexUnit items: one pixel of
\* drag is 1/ITEM_SPACING item and the resistance factor is 3/10
IndexUnit == ITEM_SPACING * 10

\* useEffect(() => indexMV.set(activeIndex), [activeIndex]): runs in a mounted
\* GalleryView when the render sees another activeIndex than the one before
SyncIndexMV(newIndex) ==
    IF "gallery" \in mountedViews /\ newIndex # galleryIndex
    THEN newIndex * IndexUnit
    ELSE indexMV

(***************************************************************************)
(* MemoryManager.uploadFiles                                               *)
(***************************************************************************)
\* getFrontAndCenterPos(x, y).phi for a pitch of x tenths of a degree
\* between -900 and 900: Math.acos(Math.sin(x)) is pi / 2 - x; the clamp of
\* y to [-1, 1] changes nothing (in millionths of a radian; the quotient
\* (900 - pitch) * PI / 1800 is computed in two parts to stay in 32 bits)
CenterPhi(pitch) ==
    (900 - pitch) * (PI \div 1800) + ((900 - pitch) * (PI % 1800)) \div 1800

\* the phi clamp of uploadFiles with the two bounds left out
ClampPhi_None(phi) == phi

\* phi = Math.max(0.1, Math.min(Math.PI - 0.1, phi))
ClampPhi(phi) == Max(PHI_MARGIN, Min(PI - PHI_MARGIN, phi))


\* (Math.random() - 0.5) * spread for Math.random() in [0, 1)
Jitters == {-(SPREAD \div 2), 0, SPREAD \div 2 - 1}

\* useGalleryStore / useWorldStore .setActiveIndex(total - 1) pointing at
\* the first item instead
NewestIndex_First(total) == 0

\* useGalleryStore / useWorldStore .setActiveIndex(total - 1)
NewestIndex(total) == total - 1

\* the non-empty file lists of at most MaxFiles files
Batches == UNION {[1..n -> {"image", "other"}] : n \in 1..MaxFiles}

\* the file lists of one file
SingleFileBatches == {<<"image">>, <<"other">>}

\* first loop of uploadFiles: one placeholder Memory per image file, pushed
\* in file order; the id is a fresh uuid, the url the file's object URL
\* (now is what Date.now() returns and phi the placement angle before the
\* clamp; the loop is synchronous, and both are taken equal for the files of
\* one batch)
RECURSIVE PreCreate(_, _, _, _, _, _, _)
PreCreate(files, i, acc, c, uuid, now, phi) ==
    IF i > Len(files) THEN acc
    ELSE IF ~IsImage(files[i]) THEN PreCreate(files, i + 1, acc, c, uuid, now, phi)
    ELSE PreCreate(files, i + 1,
                   Append(acc, [id |-> uuid + 1, url |-> <<c, i>>,
                                description |-> Placeholder,
                                timestamp |-> now, phi |-> ClampPhi(phi),
                                isAnalyzing |-> TRUE]),
                   c, uuid + 1, now, phi)

\* second loop of uploadFiles: the next index at or after i whose file is an
\* image (0 when the loop runs off the end)
NextImage(files, i) ==
    IF \E j \in i..Len(files) : IsImage(files[j])
    THEN CHOOSE j \in i..Len(files) :
            /\ IsImage(files[j])
            /\ \A h \in i..(j - 1) : ~IsImage(files[h])
    ELSE 0

\* const memory = newMemories[i]  (0-based i; the model counts files from 1)
CorrespondingMemory(call) ==
    IF call.i <= Len(call.newMemories) THEN call.newMemories[call.i]
    ELSE Undefined

\* the loop moves on to the next image file, or the async function returns
Advance(call, result) ==
    LET n == NextImage(call.files, call.i + 1) IN
    [call EXCEPT !.results[call.i] = result,
                 !.i = IF n = 0 THEN call.i ELSE n,
                 !.phase = IF n = 0 THEN "done" ELSE "reading"]

\* memory.id on an undefined memory throws inside try, and again inside
\* catch: the promise returned by uploadFiles rejects and the loop is left
Throw(call, result) ==
    [call EXCEPT !.results[call.i] = result, !.phase = "rejected"]

\* number of files of the calls started so far
RECURSIVE TotalFiles(_)
TotalFiles(cs) ==
    IF cs = <<>> THEN 0 ELSE Len(Head(cs).files) + TotalFiles(Tail(cs))

Init ==
    /\ memories = SeedMemories
    /\ galleryIndex = 0
    /\ worldIndex = 0
    /\ calls = <<>>
    /\ nextUuid = NumSeed
    /\ viewMode = "orb"
    /\ mountedViews = {"orb"}
    /\ isPlaying = FALSE
    /\ autoPlayInterval = Null
    /\ timers = {}
    /\ timerSeq = 0
    /\ indexMV = 0
    /\ panActive = FALSE
    /\ panOffset = 0
    /\ isDragging = FALSE
    /\ dragResets = 0
    /\ wheelAccumulator = 0
    /\ rotX = Angle0
    /\ rotY = Angle0
    /\ orbTheta = Angle0
    /\ orbPhi = <<0, Den>>
    /\ clock = 0
    /\ selectedMemoryId = Null
    /\ isProcessing = FALSE
    /\ expands = <<>>
    /\ rotationX = 0
    /\ rotationY = 0
    /\ orbViewDragging = FALSE
    /\ cameraRotation = <<0, 0>>
    /\ isGravityMode = FALSE
    /\ orbRotationX = 0
    /\ orbRotationY = 0
    /\ isDraggingRef = FALSE

\* App.handleFileUpload: uploadFiles, called with the rotation of
\* orbManager.getCameraRotation(), up to its first await.  dt is the time
\* that passed on the clock since Date.now() was read last and jitter the
\* random offset added to centerPos.phi
Upload(files, dt, jitter) ==
    /\ UNCHANGED <<orbVars, modalVars, sphereVars>>
    /\ clock' = clock + dt
    /\ TotalFiles(calls) + Len(files) <= MaxFiles
    /\ LET c == Len(calls) + 1
           newMemories == PreCreate(files, 1, <<>>, c, nextUuid, clock + dt,
                                    CenterPhi(cameraRotation[1]) + jitter)
           first == NextImage(files, 1)
       IN /\ memories' = AddMemories(memories, newMemories)
          /\ nextUuid' = nextUuid + Len(newMemories)
          /\ galleryIndex' = NewestIndex(Len(memories'))
          /\ indexMV' = SyncIndexMV(NewestIndex(Len(memories')))
          /\ worldIndex' = NewestIndex(Len(memories'))
          /\ calls' = Append(calls,
                [files |-> files,
                 newMemories |-> [k \in 1..Len(newMemories) |-> newMemories[k].id],
                 i |-> IF first = 0 THEN Len(files) ELSE first,
                 phase |-> IF first = 0 THEN "done" ELSE "reading",
                 results |-> [j \in 1..Len(files) |->
                                IF IsImage(files[j]) THEN "pending" ELSE "skipped"]])
    /\ UNCHANGED <<viewVars, worldVars>>
    /\ UNCHANGED <<panActive, panOffset, isDragging, dragResets, wheelAccumulator>>

\* fileToBase64 resolves: interpretMemory is called with the bytes
ReadResolve(c) ==
    /\ UNCHANGED <<orbVars, modalVars, clock, sphereVars>>
    /\ calls[c].phase = "reading"
    /\ calls' = [calls EXCEPT ![c].phase = "captioning"]
    /\ UNCHANGED <<memories, galleryIndex, worldIndex, nextUuid>>
    /\ UNCHANGED <<viewVars, worldVars, galleryVars>>

\* fileToBase64 rejects: the catch block patches memory.id
ReadReject(c) ==
    /\ UNCHANGED <<orbVars, modalVars, clock, sphereVars>>
    /\ calls[c].phase = "reading"
    /\ LET memory == CorrespondingMemory(calls[c]) IN
       IF memory = Undefined
       THEN /\ calls' = [calls EXCEPT ![c] = Throw(calls[c], "readfail")]
            /\ UNCHANGED memories
       ELSE /\ memories' = UpdateMemory(memories, memory, ReadFallback, FALSE)
            /\ calls' = [calls EXCEPT ![c] = Advance(calls[c], "readfail")]
    /\ UNCHANGED <<galleryIndex, worldIndex, nextUuid>>
    /\ UNCHANGED <<viewVars, worldVars, galleryVars>>

\* interpretMemory: response.text || "一段模糊的记忆...", or the catch string
InterpretMemory(c, i, outcome) ==
    CASE outcome = "text"  -> CaptionText(c, i)
      [] outcome = "empty" -> EmptyFallback
      [] outcome = "error" -> ServiceFallback

\* interpretMemory returns (it never rejects): the try block patches memory.id
CaptionReturn(c, outcome) ==
    /\ UNCHANGED <<orbVars, modalVars, clock, sphereVars>>
    /\ calls[c].phase = "captioning"
    /\ LET memory == CorrespondingMemory(calls[c])
           description == InterpretMemory(c, calls[c].i, outcome)
       IN IF memory = Undefined
          THEN /\ calls' = [calls EXCEPT ![c] = Throw(calls[c], outcome)]
               /\ UNCHANGED memories
          ELSE /\ memories' = UpdateMemory(memories, memory, description, FALSE)
               /\ calls' = [calls EXCEPT ![c] = Advance(calls[c], outcome)]
    /\ UNCHANGED <<galleryIndex, worldIndex, nextUuid>>
    /\ UNCHANGED <<viewVars, worldVars, galleryVars>>

(***************************************************************************)
(* GalleryManager and the gesture handlers of GalleryView                  *)
(***************************************************************************)
\* GalleryManager.setActiveIndex with the bounds left out
GallerySafeIndex_NoClamp(count, index, current) == index

\* GalleryManager.setActiveIndex: the index the store holds afterwards
GallerySafeIndex(count, index, current) ==
    IF count = 0 THEN current ELSE Max(0, Min(count - 1, index))

\* a store write of the gallery index, followed by the render it causes
SetGalleryIndex(index) ==
    /\ galleryIndex' = GallerySafeIndex(Len(memories), index, galleryIndex)
    /\ indexMV' = SyncIndexMV(galleryIndex')

\* navigateNext moving the world slideshow along with the gallery
GalleryNavigateNext_Both ==
    /\ UNCHANGED <<orbVars, modalVars, clock, sphereVars>>
    /\ galleryIndex < Len(memories) - 1
    /\ SetGalleryIndex(galleryIndex + 1)
    /\ worldIndex' = galleryIndex'
    /\ UNCHANGED <<memories, calls, nextUuid, viewVars, worldVars>>
    /\ UNCHANGED <<panActive, panOffset, isDragging, dragResets, wheelAccumulator>>

\* GalleryManager.navigateNext
GalleryNavigateNext ==
    /\ UNCHANGED <<orbVars, modalVars, clock, sphereVars>>
    /\ galleryIndex < Len(memories) - 1
    /\ SetGalleryIndex(galleryIndex + 1)
    /\ UNCHANGED <<memories, worldIndex, calls, nextUuid, viewVars, worldVars>>
    /\ UNCHANGED <<panActive, panOffset, isDragging, dragResets, wheelAccumulator>>

\* GalleryManager.navigatePrev
GalleryNavigatePrev ==
    /\ UNCHANGED <<orbVars, modalVars, clock, sphereVars>>
    /\ galleryIndex > 0
    /\ SetGalleryIndex(galleryIndex - 1)
    /\ UNCHANGED <<memories, worldIndex, calls, nextUuid, viewVars, worldVars>>
    /\ UNCHANGED <<panActive, panOffset, isDragging, dragResets, wheelAccumulator>>

\* the vertical offsets (pixels) and velocities a pan gesture is tried with
PanOffsets == {-71, 70, 71}
PanVelocities == {-301, -300, 0, 300, 301}

\* onPanStart
PanStart ==
    /\ UNCHANGED <<orbVars, modalVars, clock, sphereVars>>
    /\ "gallery" \in mountedViews
    /\ ~panActive
    /\ panActive' = TRUE
    /\ panOffset' = 0
    /\ isDragging' = TRUE
    /\ UNCHANGED <<uploadVars, viewVars, worldVars, indexMV, dragResets, wheelAccumulator>>

\* onPan: the raw target, with a resistance of 0.3 outside [0, count - 1]
DampenedTarget(rawTarget, count) ==
    IF rawTarget < 0 THEN (rawTarget * 3) \div 10
    ELSE IF rawTarget > (count - 1) * IndexUnit
         THEN (count - 1) * IndexUnit + ((rawTarget - (count - 1) * IndexUnit) * 3) \div 10
         ELSE rawTarget

\* onPan
Pan(offsetY) ==
    /\ UNCHANGED <<orbVars, modalVars, clock, sphereVars>>
    /\ "gallery" \in mountedViews
    /\ panActive
    /\ panOffset' = offsetY
    /\ indexMV' = DampenedTarget(galleryIndex * IndexUnit - offsetY * (IndexUnit \div ITEM_SPACING),
                                 Len(memories))
    /\ UNCHANGED <<uploadVars, viewVars, worldVars, panActive, isDragging, dragResets, wheelAccumulator>>

\* onPanEnd with the downward test made first
PanEndTarget_DownFirst(activeIndex, offsetY, velocityY) ==
    LET velocity == -velocityY
        offset == -offsetY
        SWIPE_THRESHOLD == ITEM_SPACING \div 4
    IN IF velocity < -VELOCITY_THRESHOLD \/ offset < -SWIPE_THRESHOLD
       THEN activeIndex - 1
       ELSE IF velocity > VELOCITY_THRESHOLD \/ offset > SWIPE_THRESHOLD
            THEN activeIndex + 1
            ELSE activeIndex

\* onPanEnd: the index asked of galleryManager.setActiveIndex
PanEndTarget(activeIndex, offsetY, velocityY) ==
    LET velocity == -velocityY
        offset == -offsetY
        SWIPE_THRESHOLD == ITEM_SPACING \div 4
    IN IF velocity > VELOCITY_THRESHOLD \/ offset > SWIPE_THRESHOLD
       THEN activeIndex + 1
       ELSE IF velocity < -VELOCITY_THRESHOLD \/ offset < -SWIPE_THRESHOLD
            THEN activeIndex - 1
            ELSE activeIndex

\* onPanEnd
PanEnd(velocityY) ==
    /\ UNCHANGED <<orbVars, modalVars, clock, sphereVars>>
    /\ "gallery" \in mountedViews
    /\ panActive
    /\ dragResets < MaxResets
    /\ panActive' = FALSE
    /\ panOffset' = 0
    /\ dragResets' = dragResets + 1
    /\ SetGalleryIndex(PanEndTarget(galleryIndex, panOffset, velocityY))
    /\ UNCHANGED <<memories, worldIndex, calls, nextUuid, viewVars, worldVars>>
    /\ UNCHANGED <<isDragging, wheelAccumulator>>

\* the timeout set by onPanEnd fires, 100 ms after the release
DragResetFire ==
    /\ UNCHANGED <<orbVars, modalVars, clock, sphereVars>>
    /\ dragResets > 0
    /\ dragResets' = dragResets - 1
    /\ isDragging' = FALSE
    /\ UNCHANGED <<uploadVars, viewVars, worldVars, indexMV, panActive, panOffset, wheelAccumulator>>

\* Math.sign
Sign(x) == IF x > 0 THEN 1 ELSE IF x < 0 THEN -1 ELSE 0
Abs(x) == IF x < 0 THEN -x ELSE x

WheelDeltas == {-50, 50}

\* handleWheel; idle tells whether more than 200 ms passed since the last event
HandleWheel(deltaY, idle) ==
    /\ UNCHANGED <<orbVars, modalVars, clock, sphereVars>>
    /\ "gallery" \in mountedViews
    /\ LET accumulated == (IF idle THEN 0 ELSE wheelAccumulator) + deltaY
           direction == Sign(accumulated)
           newIndex == Max(0, Min(Len(memories) - 1, galleryIndex + direction))
       IN /\ Abs(accumulated) <= MaxWheel
          /\ IF Abs(accumulated) > WHEEL_THRESHOLD /\ newIndex # galleryIndex
             THEN /\ SetGalleryIndex(newIndex)
                  /\ wheelAccumulator' = 0
             ELSE /\ wheelAccumulator' = accumulated
                  /\ UNCHANGED <<galleryIndex, indexMV>>
    /\ UNCHANGED <<memories, worldIndex, calls, nextUuid, viewVars, worldVars>>
    /\ UNCHANGED <<panActive, panOffset, isDragging, dragResets>>

\* Math.round(pct * (count - 1)) for pct = step / ScrollSteps
ScrollbarIndex(step, count) ==
    (2 * step * (count - 1) + ScrollSteps) \div (2 * ScrollSteps)

\* handleScrollbarClick: pointer-down on the track at step / ScrollSteps of its height
ScrollbarClick(step) ==
    /\ UNCHANGED <<orbVars, modalVars, clock, sphereVars>>
    /\ "gallery" \in mountedViews
    /\ SetGalleryIndex(ScrollbarIndex(step, Len(memories)))
    /\ UNCHANGED <<memories, worldIndex, calls, nextUuid, viewVars, worldVars>>
    /\ UNCHANGED <<panActive, panOffset, isDragging, dragResets, wheelAccumulator>>

\* GalleryItem onClick on a rendered item that is not the active one
\* (item is the 0-based position in sortedMemories)
ItemClick(item) ==
    /\ UNCHANGED <<orbVars, modalVars, clock, sphereVars>>
    /\ "gallery" \in mountedViews
    /\ item \in 0..(Len(memories) - 1)
    /\ Abs(item - galleryIndex) <= VISIBLE_RANGE
    /\ item # galleryIndex
    /\ ~isDragging
    /\ SetGalleryIndex(item)
    /\ UNCHANGED <<memories, worldIndex, calls, nextUuid, viewVars, worldVars>>
    /\ UNCHANGED <<panActive, panOffset, isDragging, dragResets, wheelAccumulator>>

(***************************************************************************)
(* WorldManager                                                            *)
(***************************************************************************)
\* JavaScript's % : the result takes the sign of the dividend
JsMod(a, n) == IF a >= 0 THEN a % n ELSE -((-a) % n)

\* WorldManager.setActiveIndex clamping like the gallery instead of looping
WorldSafeIndex_Clamp(count, index, current) ==
    IF count = 0 THEN current ELSE Max(0, Min(count - 1, index))

\* setActiveIndex: the index the store holds after setActiveIndex(index),
\* given the collection size and the index held before
WorldSafeIndex(count, index, current) ==
    IF count = 0 THEN current ELSE JsMod(index + count, count)

\* stopAutoPlay without the clearInterval call (the handle is only dropped)
StopAutoPlay_NoClear(handle, scheduled) == scheduled

\* stopAutoPlay: the timers left in the host after clearInterval(handle)
StopAutoPlay(handle, scheduled) ==
    IF handle # Null THEN scheduled \ {handle} ELSE scheduled

\* setPlay(playing): store the flag, then startAutoPlay or stopAutoPlay
SetPlay(playing) ==
    /\ isPlaying' = playing
    /\ IF playing
       THEN /\ timerSeq < MaxIntervals
            /\ timerSeq' = timerSeq + 1
            /\ autoPlayInterval' = timerSeq + 1
            /\ timers' = StopAutoPlay(autoPlayInterval, timers) \cup {timerSeq + 1}
       ELSE /\ timerSeq' = timerSeq
            /\ autoPlayInterval' = Null
            /\ timers' = StopAutoPlay(autoPlayInterval, timers)

\* a direct call of worldManager.setPlay
SetPlayCall(playing) ==
    /\ UNCHANGED <<orbVars, modalVars, clock, sphereVars>>
    /\ "world" \in mountedViews
    /\ SetPlay(playing)
    /\ UNCHANGED <<uploadVars, viewVars, galleryVars>>

\* a direct call of worldManager.setActiveIndex(index)
WorldSetActiveIndex(index) ==
    /\ UNCHANGED <<orbVars, modalVars, clock, sphereVars>>
    /\ worldIndex' = WorldSafeIndex(Len(memories), index, worldIndex)
    /\ UNCHANGED <<memories, galleryIndex, calls, nextUuid, viewVars, worldVars>>
    /\ UNCHANGED galleryVars

\* togglePlay: the play button and the Space key of WorldView
TogglePlay ==
    /\ UNCHANGED <<orbVars, modalVars, clock, sphereVars>>
    /\ "world" \in mountedViews
    /\ SetPlay(~isPlaying)
    /\ UNCHANGED <<uploadVars, viewVars, galleryVars>>

\* navigateNext: right arrow key and the right quarter of WorldView
WorldNavigateNext ==
    /\ UNCHANGED <<orbVars, modalVars, clock, sphereVars>>
    /\ "world" \in mountedViews
    /\ worldIndex' = WorldSafeIndex(Len(memories), worldIndex + 1, worldIndex)
    /\ UNCHANGED <<memories, galleryIndex, calls, nextUuid, viewVars, worldVars>>
    /\ UNCHANGED galleryVars

\* navigatePrev: left arrow key and the left quarter of WorldView
WorldNavigatePrev ==
    /\ UNCHANGED <<orbVars, modalVars, clock, sphereVars>>
    /\ "world" \in mountedViews
    /\ worldIndex' = WorldSafeIndex(Len(memories), worldIndex - 1, worldIndex)
    /\ UNCHANGED <<memories, galleryIndex, calls, nextUuid, viewVars, worldVars>>
    /\ UNCHANGED galleryVars

\* the callback of a scheduled interval fires: this.navigateNext()
AutoPlayTick(t) ==
    /\ UNCHANGED <<orbVars, modalVars, clock, sphereVars>>
    /\ t \in timers
    /\ worldIndex' = WorldSafeIndex(Len(memories), worldIndex + 1, worldIndex)
    /\ UNCHANGED <<memories, galleryIndex, calls, nextUuid, viewVars, worldVars>>
    /\ UNCHANGED galleryVars

(***************************************************************************)
(* ViewManager and the mounting of the views by App                        *)
(***************************************************************************)
ViewModes == {"orb", "gallery", "world"}

\* setViewMode closing the modal as well
SetViewMode_Deselect(mode) ==
    /\ UNCHANGED <<orbVars, isProcessing, expands, clock, sphereVars>>
    /\ selectedMemoryId' = Null
    /\ mode # viewMode
    /\ viewMode' = mode
    /\ mountedViews' = mountedViews \cup {mode}
    /\ IF mode = "gallery" /\ "gallery" \notin mountedViews
       THEN /\ indexMV' = galleryIndex * IndexUnit
            /\ UNCHANGED <<panActive, panOffset, isDragging, dragResets, wheelAccumulator>>
       ELSE UNCHANGED galleryVars
    /\ UNCHANGED <<uploadVars, worldVars>>

\* setViewMode: App renders the new view at once; the view that was shown
\* stays mounted until its exit animation has run
SetViewMode(mode) ==
    /\ UNCHANGED <<orbVars, modalVars, clock, sphereVars>>
    /\ mode # viewMode
    /\ viewMode' = mode
    /\ mountedViews' = mountedViews \cup {mode}
    /\ IF mode = "gallery" /\ "gallery" \notin mountedViews
       THEN /\ indexMV' = galleryIndex * IndexUnit
            /\ UNCHANGED <<panActive, panOffset, isDragging, dragResets, wheelAccumulator>>
       ELSE UNCHANGED galleryVars
    /\ UNCHANGED <<uploadVars, worldVars>>

\* the unmount of a view with WorldView's effect cleanup left out
ExitComplete_NoCleanup(view) ==
    /\ UNCHANGED <<orbVars, modalVars, clock>>
    /\ IF view = "orb"
       THEN /\ rotationX' = 0
            /\ rotationY' = 0
            /\ orbViewDragging' = FALSE
            /\ orbRotationX' = 0
            /\ orbRotationY' = 0
            /\ isDraggingRef' = FALSE
            /\ UNCHANGED <<cameraRotation, isGravityMode>>
       ELSE UNCHANGED sphereVars
    /\ view \in mountedViews \ {viewMode}
    /\ mountedViews' = mountedViews \ {view}
    /\ viewMode' = viewMode
    /\ UNCHANGED worldVars
    /\ IF view = "gallery"
       THEN /\ indexMV' = 0
            /\ panActive' = FALSE
            /\ panOffset' = 0
            /\ isDragging' = FALSE
            /\ dragResets' = 0
            /\ wheelAccumulator' = 0
       ELSE UNCHANGED galleryVars
    /\ UNCHANGED uploadVars

\* the exit animation of a view that is no longer shown completes and the
\* view unmounts; WorldView's effect cleanup runs cleanup() and setPlay(false)
ExitComplete(view) ==
    /\ UNCHANGED <<orbVars, modalVars, clock>>
    /\ IF view = "orb"
       THEN /\ rotationX' = 0
            /\ rotationY' = 0
            /\ orbViewDragging' = FALSE
            /\ orbRotationX' = 0
            /\ orbRotationY' = 0
            /\ isDraggingRef' = FALSE
            /\ UNCHANGED <<cameraRotation, isGravityMode>>
       ELSE UNCHANGED sphereVars
    /\ view \in mountedViews \ {viewMode}
    /\ mountedViews' = mountedViews \ {view}
    /\ viewMode' = viewMode
    /\ IF view = "world" THEN SetPlay(FALSE) ELSE UNCHANGED worldVars
    /\ IF view = "gallery"
       THEN /\ indexMV' = 0
            /\ panActive' = FALSE
            /\ panOffset' = 0
            /\ isDragging' = FALSE
            /\ dragResets' = 0
            /\ wheelAccumulator' = 0
       ELSE UNCHANGED galleryVars
    /\ UNCHANGED uploadVars

(***************************************************************************)
(* Selection, MemoryModal and MemoryManager.expandMemoryDescription        *)
(***************************************************************************)
\* the last character of a piece of text, as its code point.  The seeded
\* descriptions all end in the ideographic full stop, the placeholder and
\* the three fallback strings in "...", a separator is one space; a text
\* returned by expandMemory carries its last character in the token; a
\* caption of interpretMemory is a Chinese sentence, taken to end in the
\* ideographic full stop too
LastCharOf(token) ==
    CASE token[1] = "seed" -> IDEOGRAPHIC_FULL_STOP
      [] token[1] = "caption" -> IDEOGRAPHIC_FULL_STOP
      [] token[1] = "added" -> token[2]
      [] token[1] = "space" -> SPACE
      [] OTHER -> FULL_STOP

\* currentDesc.slice(-1): the code point of the last character, 0 for ""
LastChar(desc) == IF desc = <<>> THEN 0 ELSE LastCharOf(desc[Len(desc)])

\* the last characters tried for a text returned by expandMemory: the
\* ideographic full stop and an ideograph of the range the separator test
\* knows (the placeholder gives a description that ends in a Latin character)
TextEndings == {IDEOGRAPHIC_FULL_STOP, CJK_LAST}

\* the text with that last character
AddedText(ending) == << <<"added", ending, 0>> >>

\* /[\u4e00-\u9fa5]/.test(ch)
CjkTest(ch) == ch \in CJK_FIRST..CJK_LAST

\* const separator = /[\u4e00-\u9fa5]/.test(currentDesc.slice(-1)) ? '' : ' '
Separator(currentDesc) ==
    IF CjkTest(LastChar(currentDesc)) THEN <<>> ELSE << <<"space", 0, 0>> >>

\* updateMemory(id, { description }): the other fields are left alone
PatchDescription(mems, id, description) ==
    [k \in 1..Len(mems) |->
        IF mems[k].id = id THEN [mems[k] EXCEPT !.description = description]
        ELSE mems[k]]

\* the outcomes of the awaited chain fetch / fileToBase64 / expandMemory:
\* a text (given by its last character), the empty string expandMemory
\* returns when the service gave nothing or failed, or a rejection of the
\* fetch or of the file read
ExpandOutcomes ==
    {<<"text", ending>> : ending \in TextEndings} \cup {<<"empty", 0>>, <<"reject", 0>>}

\* the try block with an else branch that writes the fallback description
ExpandPatch_Fallback(mems, call, outcome) ==
    IF outcome[1] = "text"
    THEN PatchDescription(mems, call.id,
            call.currentDesc \o Separator(call.currentDesc) \o AddedText(outcome[2]))
    ELSE PatchDescription(mems, call.id, ReadFallback)

\* the try block of expandMemoryDescription after its awaits: the memories
\* the store holds afterwards
ExpandPatch(mems, call, outcome) ==
    IF outcome[1] = "text"
    THEN PatchDescription(mems, call.id,
            call.currentDesc \o Separator(call.currentDesc) \o AddedText(outcome[2]))
    ELSE mems

\* sortedMemories[activeIndex] of WorldView and GalleryView
ActiveMemory(mems, index) == SortedMemories(mems)[index + 1]

\* the orbs a double click is tried on: the first and the last memory
OrbPicks(mems) == {1, Len(mems)}

\* MemoryOrb onDoubleClick: memoryManager.selectMemory(m.id)
OrbSelect(k) ==
    /\ "orb" \in mountedViews
    /\ k \in 1..Len(memories)
    /\ selectedMemoryId' = memories[k].id
    /\ UNCHANGED <<isProcessing, expands>>
    /\ UNCHANGED <<uploadVars, viewVars, worldVars, galleryVars, orbVars, clock, sphereVars>>

\* WorldView image onClick: memoryManager.selectMemory(activeMemory.id)
WorldSelect ==
    /\ "world" \in mountedViews
    /\ worldIndex \in 0..(Len(memories) - 1)
    /\ selectedMemoryId' = ActiveMemory(memories, worldIndex).id
    /\ UNCHANGED <<isProcessing, expands>>
    /\ UNCHANGED <<uploadVars, viewVars, worldVars, galleryVars, orbVars, clock, sphereVars>>

\* GalleryItem onClick on the active item: memoryManager.selectMemory(memory.id)
ItemSelect ==
    /\ "gallery" \in mountedViews
    /\ galleryIndex \in 0..(Len(memories) - 1)
    /\ ~isDragging
    /\ selectedMemoryId' = ActiveMemory(memories, galleryIndex).id
    /\ UNCHANGED <<isProcessing, expands>>
    /\ UNCHANGED <<uploadVars, viewVars, worldVars, galleryVars, orbVars, clock, sphereVars>>

\* MemoryModal onClose (the backdrop and the close button of an open modal)
CloseModal ==
    /\ \E k \in 1..Len(memories) : memories[k].id = selectedMemoryId
    /\ selectedMemoryId' = Null
    /\ UNCHANGED <<isProcessing, expands>>
    /\ UNCHANGED <<uploadVars, viewVars, worldVars, galleryVars, orbVars, clock, sphereVars>>

\* handleSubmit and expandMemoryDescription get past their early returns
StartsExpand(inputText, processing) == inputText # "" /\ ~processing

\* MemoryModal.handleSubmit with the text of the input field, then
\* expandMemoryDescription up to its first await
HandleSubmit(inputText) ==
    /\ \E k \in 1..Len(memories) : memories[k].id = selectedMemoryId
    /\ Len(expands) < MaxExpands
    /\ LET memory == CHOOSE k \in 1..Len(memories) : memories[k].id = selectedMemoryId
       IN IF StartsExpand(inputText, isProcessing)
          THEN /\ isProcessing' = TRUE
               /\ expands' = Append(expands,
                     [id |-> memories[memory].id,
                      currentDesc |-> memories[memory].description,
                      phase |-> "pending"])
          ELSE UNCHANGED <<isProcessing, expands>>
    /\ UNCHANGED selectedMemoryId
    /\ UNCHANGED <<uploadVars, viewVars, worldVars, galleryVars, orbVars, clock, sphereVars>>

\* the awaits of expandMemoryDescription are over: try, catch and finally
ExpandReturn(n, outcome) ==
    /\ expands[n].phase = "pending"
    /\ memories' = ExpandPatch(memories, expands[n], outcome)
    /\ isProcessing' = FALSE
    /\ expands' = [expands EXCEPT ![n].phase =
                      IF outcome[1] = "text" THEN "appended" ELSE outcome[1]]
    /\ UNCHANGED <<galleryIndex, worldIndex, calls, nextUuid, selectedMemoryId>>
    /\ UNCHANGED <<viewVars, worldVars, galleryVars, orbVars, clock, sphereVars>>

vars == <<uploadVars, viewVars, worldVars, galleryVars, orbVars, modalVars, clock, sphereVars>>

Next ==
    \/ \E files \in Batches : Upload(files, 1, 0)
    \/ \E c \in 1..Len(calls) : ReadResolve(c)
    \/ \E c \in 1..Len(calls) : ReadReject(c)
    \/ \E c \in 1..Len(calls) : \E o \in {"text", "empty", "error"} : CaptionReturn(c, o)

Spec == Init /\ [][Next]_vars

(***************************************************************************)
(* The sphere: camera rotation and one orb                                 *)
(***************************************************************************)
\* OrbView.handlePointerMove followed by the springs: the rotation the
\* containers are rendered with takes another value
RotateCamera(rX, rY) ==
    /\ "orb" \in mountedViews
    /\ <<rX, rY>> # <<rotX, rotY>>
    /\ rotX' = rX
    /\ rotY' = rY
    /\ UNCHANGED <<orbTheta, orbPhi, uploadVars, viewVars, worldVars, galleryVars, modalVars, clock, sphereVars>>

\* the orb looked at is a memory stored at (theta, phi)
LookAtOrb(theta, phi) ==
    /\ <<theta, phi>> # <<orbTheta, orbPhi>>
    /\ orbTheta' = theta
    /\ orbPhi' = phi
    /\ UNCHANGED <<rotX, rotY, uploadVars, viewVars, worldVars, galleryVars, modalVars, clock, sphereVars>>

\* the orb looked at is an upload placed with zero jitter for the current
\* rotation: theta and phi are centerPos.theta and centerPos.phi (the clamp
\* of phi to [0.1, pi - 0.1] leaves every angle of PhiAngles as it is)
LookAtUpload ==
    /\ orbTheta' = GetFrontAndCenterPos(rotX, rotY).theta
    /\ orbPhi' = GetFrontAndCenterPos(rotX, rotY).phi
    /\ UNCHANGED <<rotX, rotY, uploadVars, viewVars, worldVars, galleryVars, modalVars, clock, sphereVars>>

NextOrb ==
    \/ \E rX \in PitchAngles : \E rY \in Angles : RotateCamera(rX, rY)
    \/ \E theta \in Angles : \E phi \in PhiAngles : LookAtOrb(theta, phi)
    \/ LookAtUpload

SpecOrb == Init /\ [][NextOrb]_vars

(***************************************************************************)
(* The sphere's pointer handlers, the gravity mode and one orb's spin      *)
(***************************************************************************)
\* the pitch clamp of handlePointerMove left out
ClampPitch_None(x) == x

\* Math.max(-85, Math.min(85, newRotX)), in tenths of a degree
ClampPitch(x) == Max(-MAX_PITCH * 10, Min(MAX_PITCH * 10, x))

\* the pointer movements between two pointer events, in pixels
PointerDeltas == {-300, -100, 100, 300}

\* OrbView.handlePointerDown; onControl: the target is inside a button or
\* an input
OrbViewPointerDown(onControl) ==
    /\ "orb" \in mountedViews
    /\ orbViewDragging' = (IF onControl THEN orbViewDragging ELSE TRUE)
    /\ UNCHANGED <<rotationX, rotationY, cameraRotation, isGravityMode,
                   orbRotationX, orbRotationY, isDraggingRef>>
    /\ UNCHANGED <<uploadVars, viewVars, worldVars, galleryVars, orbVars, modalVars, clock>>

\* OrbView.handlePointerMove with the pointer moved by (deltaX, deltaY), and
\* the "change" subscriptions of the two motion values, which run
\* orbManager.updateCameraRotation when a value is set to another value
OrbViewPointerMove(deltaX, deltaY) ==
    /\ "orb" \in mountedViews
    /\ Abs(rotationY + 3 * deltaX) <= MaxYaw
    /\ IF ~orbViewDragging
       THEN UNCHANGED <<rotationX, rotationY, cameraRotation>>
       ELSE LET newY == rotationY + 3 * deltaX
                newX == ClampPitch(rotationX - 3 * deltaY)
                afterY == IF newY # rotationY THEN <<rotationX, newY>> ELSE cameraRotation
            IN  /\ rotationY' = newY
                /\ rotationX' = newX
                /\ cameraRotation' = IF newX # rotationX THEN <<newX, newY>> ELSE afterY
    /\ UNCHANGED <<orbViewDragging, isGravityMode, orbRotationX, orbRotationY, isDraggingRef>>
    /\ UNCHANGED <<uploadVars, viewVars, worldVars, galleryVars, orbVars, modalVars, clock>>

\* OrbView.handlePointerUp, the handler of onPointerUp and of onPointerLeave
OrbViewPointerUp ==
    /\ "orb" \in mountedViews
    /\ orbViewDragging' = FALSE
    /\ UNCHANGED <<rotationX, rotationY, cameraRotation, isGravityMode,
                   orbRotationX, orbRotationY, isDraggingRef>>
    /\ UNCHANGED <<uploadVars, viewVars, worldVars, galleryVars, orbVars, modalVars, clock>>

\* snapToBalance with the rounding left out
SnapToBalance_None(val) == val

\* snapToBalance: Math.round(val / 360) * 360 for val in tenths of a degree;
\* Math.round takes a half to the next integer above
SnapToBalance(val) == ((2 * val + FULL_TURN * 10) \div (2 * FULL_TURN * 10)) * (FULL_TURN * 10)

\* orbManager.toggleGravityMode (the gravity button of App, disabled unless
\* the sphere is the view shown), then the effect of the mounted MemoryOrb on
\* isGravityMode
ToggleGravityMode ==
    /\ viewMode = "orb"
    /\ isGravityMode' = ~isGravityMode
    /\ IF "orb" \in mountedViews /\ ~isGravityMode
       THEN /\ orbRotationX' = SnapToBalance(orbRotationX)
            /\ orbRotationY' = SnapToBalance(orbRotationY)
       ELSE UNCHANGED <<orbRotationX, orbRotationY>>
    /\ UNCHANGED <<rotationX, rotationY, orbViewDragging, cameraRotation, isDraggingRef>>
    /\ UNCHANGED <<uploadVars, viewVars, worldVars, galleryVars, orbVars, modalVars, clock>>

\* MemoryOrb.handlePointerDown
OrbPointerDown ==
    /\ "orb" \in mountedViews
    /\ isDraggingRef' = TRUE
    /\ UNCHANGED <<rotationX, rotationY, orbViewDragging, cameraRotation,
                   isGravityMode, orbRotationX, orbRotationY>>
    /\ UNCHANGED <<uploadVars, viewVars, worldVars, galleryVars, orbVars, modalVars, clock>>

\* MemoryOrb.handlePointerMove with the pointer moved by (deltaX, deltaY)
OrbPointerMove(deltaX, deltaY) ==
    /\ "orb" \in mountedViews
    /\ Abs(orbRotationY + 6 * deltaX) <= MaxSpin
    /\ Abs(orbRotationX - 6 * deltaY) <= MaxSpin
    /\ IF ~isDraggingRef
       THEN UNCHANGED <<orbRotationX, orbRotationY>>
       ELSE /\ orbRotationY' = orbRotationY + 6 * deltaX
            /\ orbRotationX' = orbRotationX - 6 * deltaY
    /\ UNCHANGED <<rotationX, rotationY, orbViewDragging, cameraRotation,
                   isGravityMode, isDraggingRef>>
    /\ UNCHANGED <<uploadVars, viewVars, worldVars, galleryVars, orbVars, modalVars, clock>>

\* MemoryOrb.handlePointerUp
OrbPointerUp ==
    /\ "orb" \in mountedViews
    /\ IF ~isDraggingRef
       THEN UNCHANGED <<isDraggingRef, orbRotationX, orbRotationY>>
       ELSE /\ isDraggingRef' = FALSE
            /\ IF isGravityMode
               THEN /\ orbRotationX' = SnapToBalance(orbRotationX)
                    /\ orbRotationY' = SnapToBalance(orbRotationY)
               ELSE UNCHANGED <<orbRotationX, orbRotationY>>
    /\ UNCHANGED <<rotationX, rotationY, orbViewDragging, cameraRotation, isGravityMode>>
    /\ UNCHANGED <<uploadVars, viewVars, worldVars, galleryVars, orbVars, modalVars, clock>>

\* the sphere under pointer gestures, with view switches
NextSphere ==
    \/ \E onControl \in BOOLEAN : OrbViewPointerDown(onControl)
    \/ \E deltaX \in PointerDeltas \cup {0} : \E deltaY \in PointerDeltas \cup {0} :
          OrbViewPointerMove(deltaX, deltaY)
    \/ OrbViewPointerUp
    \/ \E mode \in {"orb", "gallery"} : SetViewMode(mode)
    \/ \E view \in {"orb", "gallery"} : ExitComplete(view)

SpecSphere == Init /\ [][NextSphere]_vars

\* one orb spun by the pointer, with the gravity button and view switches
NextGravity ==
    \/ ToggleGravityMode
    \/ OrbPointerDown
    \/ \E deltaX \in PointerDeltas \cup {0} : \E deltaY \in PointerDeltas \cup {0} :
          OrbPointerMove(deltaX, deltaY)
    \/ OrbPointerUp
    \/ \E mode \in {"orb", "gallery"} : SetViewMode(mode)
    \/ \E view \in {"orb", "gallery"} : ExitComplete(view)

SpecGravity == Init /\ [][NextGravity]_vars

\* uploads alone: batches arriving in the same millisecond as the last read
\* of the clock or later
NextPlace ==
    \/ \E files \in Batches : \E dt \in {0, 1} : Upload(files, dt, 0)

SpecPlace == Init /\ [][NextPlace]_vars

\* single files uploaded under every jitter while the camera is dragged up
\* and down
NextAim ==
    \/ \E files \in SingleFileBatches : \E jitter \in Jitters : Upload(files, 1, jitter)
    \/ OrbViewPointerDown(FALSE)
    \/ \E deltaY \in {-300, 300} : OrbViewPointerMove(0, deltaY)

SpecAim == Init /\ [][NextAim]_vars

\* selection and the modal, with view switches and the first upload, of
\* one image
NextModal ==
    \/ \E files \in {<<"image">>} : calls = <<>> /\ Upload(files, 1, 0)
    \/ \E c \in 1..Len(calls) : ReadResolve(c)
    \/ \E c \in 1..Len(calls) : CaptionReturn(c, "text")
    \/ \E k \in OrbPicks(memories) : OrbSelect(k)
    \/ WorldSelect
    \/ ItemSelect
    \/ CloseModal
    \/ \E inputText \in {"", "prompt"} : HandleSubmit(inputText)
    \/ \E n \in 1..Len(expands) : \E outcome \in ExpandOutcomes : ExpandReturn(n, outcome)
    \/ \E mode \in ViewModes : SetViewMode(mode)
    \/ \E view \in ViewModes : ExitComplete(view)

SpecModal == Init /\ [][NextModal]_vars

\* the world slideshow with its autoplay timer, view switches and uploads
NextWorld ==
    \/ \E files \in SingleFileBatches : Upload(files, 1, 0)
    \/ WorldNavigateNext
    \/ WorldNavigatePrev
    \/ TogglePlay
    \/ \E playing \in BOOLEAN : SetPlayCall(playing)
    \/ \E t \in timers : AutoPlayTick(t)
    \/ \E mode \in {"orb", "world"} : SetViewMode(mode)
    \/ \E view \in {"orb", "world"} : ExitComplete(view)

SpecWorld == Init /\ [][NextWorld]_vars

\* the slideshow left to its timer: the arrow keys are used only while it is
\* paused, and a scheduled interval keeps firing (setInterval, every 5 s)
NextAutoPlay ==
    \/ \E files \in SingleFileBatches : Upload(files, 1, 0)
    \/ ~isPlaying /\ WorldNavigateNext
    \/ ~isPlaying /\ WorldNavigatePrev
    \/ TogglePlay
    \/ \E t \in timers : AutoPlayTick(t)
    \/ \E mode \in {"orb", "world"} : SetViewMode(mode)
    \/ \E view \in {"orb", "world"} : ExitComplete(view)

\* setActiveIndex called with any argument, between uploads of one file
NextWorldIndex ==
    \/ \E files \in SingleFileBatches : Upload(files, 1, 0)
    \/ \E index \in -MaxArg..MaxArg : WorldSetActiveIndex(index)

SpecWorldIndex == Init /\ [][NextWorldIndex]_vars

\* the three views side by side: the two managers' navigation, the
\* slideshow timer, view switches and uploads of one image
NextViews ==
    \/ \E files \in {<<"image">>} : Upload(files, 1, 0)
    \/ GalleryNavigateNext
    \/ GalleryNavigatePrev
    \/ WorldNavigateNext
    \/ WorldNavigatePrev
    \/ TogglePlay
    \/ \E t \in timers : AutoPlayTick(t)
    \/ \E mode \in ViewModes : SetViewMode(mode)
    \/ \E view \in ViewModes : ExitComplete(view)

SpecViews == Init /\ [][NextViews]_vars

SpecAutoPlay ==
    Init /\ [][NextAutoPlay]_vars /\ WF_vars(\E t \in timers : AutoPlayTick(t))

\* the gallery with its gestures, view switches and uploads of one image
NextGallery ==
    \/ \E files \in {<<"image">>} : Upload(files, 1, 0)
    \/ GalleryNavigateNext
    \/ GalleryNavigatePrev
    \/ PanStart
    \/ \E offsetY \in PanOffsets : Pan(offsetY)
    \/ \E velocityY \in PanVelocities : PanEnd(velocityY)
    \/ DragResetFire
    \/ \E deltaY \in WheelDeltas : \E idle \in BOOLEAN : HandleWheel(deltaY, idle)
    \/ \E step \in 0..ScrollSteps : ScrollbarClick(step)
    \/ \E item \in 0..(NumSeed + MaxFiles) : ItemClick(item)
    \/ \E mode \in {"orb", "gallery"} : SetViewMode(mode)
    \/ \E view \in {"orb", "gallery"} : ExitComplete(view)

SpecGallery == Init /\ [][NextGallery]_vars

(***************************************************************************)
(* Upload and caption resolution: claims C1, C8, C9, C10                    *)
(***************************************************************************)
\* the position in memories of the record created for file <<c, i>> (its url
\* is that file's object URL); 0 when the file produced no record
RecordOf(c, i) ==
    IF \E k \in 1..Len(memories) : memories[k].url = <<c, i>>
    THEN CHOOSE k \in 1..Len(memories) : memories[k].url = <<c, i>>
    ELSE 0

\* the image files of call c
ImagesOf(c) == {i \in 1..Len(calls[c].files) : IsImage(calls[c].files[i])}

\* C1: a caption generated from an image is found only on the record created
\* for that image, and a record whose own request has not resolved yet still
\* is the untouched placeholder, whatever the batch (non-image files mixed in
\* or not) and whatever the order in which the requests resolve.
C1_CaptionOnOwnRecord ==
    /\ \A k \in 1..Len(memories) :
          memories[k].description[1][1] = "caption"
             => memories[k].url = <<memories[k].description[1][2],
                                    memories[k].description[1][3]>>
    /\ \A c \in 1..Len(calls) : \A i \in ImagesOf(c) :
          calls[c].results[i] = "pending"
             => /\ memories[RecordOf(c, i)].description = Placeholder
                /\ memories[RecordOf(c, i)].isAnalyzing

\* C8: when reading or captioning an image has failed, the record of that
\* image carries a fallback description with isAnalyzing = FALSE, the call
\* was not aborted, and the records of the other images of the batch hold
\* what their own resolution gave them (the placeholder while it is pending).
C8_FailureIsolated ==
    \A c \in 1..Len(calls) : \A i \in ImagesOf(c) :
        calls[c].results[i] \in {"readfail", "error"}
           => /\ memories[RecordOf(c, i)].description \in {ReadFallback, ServiceFallback}
              /\ ~memories[RecordOf(c, i)].isAnalyzing
              /\ calls[c].phase # "rejected"
              /\ \A j \in ImagesOf(c) \ {i} :
                    /\ calls[c].results[j] = "pending"
                          => /\ memories[RecordOf(c, j)].description = Placeholder
                             /\ memories[RecordOf(c, j)].isAnalyzing
                    /\ calls[c].results[j] = "text"
                          => memories[RecordOf(c, j)].description = CaptionText(c, j)

\* C9: once every file read and every caption call of every uploadFiles call
\* has resolved or rejected (no call is waiting on a request any more), every
\* memory has isAnalyzing = FALSE.
C9_SettledMeansAnalyzed ==
    (\A c \in 1..Len(calls) : calls[c].phase \in {"done", "rejected"})
        => \A k \in 1..Len(memories) : ~memories[k].isAnalyzing

\* C10: a call of uploadFiles on a batch with k image files appends exactly
\* k records to the end of the collection, in file order, each the
\* placeholder with isAnalyzing = TRUE and a fresh id; the records that were
\* there are unchanged and the non-image files give no record.
C10_UploadAppendsPlaceholders ==
    [][Len(calls') > Len(calls) =>
        LET c == Len(calls')
            images == {i \in 1..Len(calls'[c].files) : IsImage(calls'[c].files[i])}
            k == Cardinality(images)
            n == Len(memories)
        IN /\ Len(memories') = n + k
           /\ SubSeq(memories', 1, n) = memories
           /\ \A j \in 1..k :
                 /\ memories'[n + j].isAnalyzing
                 /\ memories'[n + j].description = Placeholder
                 /\ memories'[n + j].url[1] = c
                 /\ memories'[n + j].url[2] \in images
                 /\ \A h \in 1..(n + j - 1) : memories'[h].id # memories'[n + j].id
           /\ \A j \in 1..(k - 1) :
                 memories'[n + j].url[2] < memories'[n + j + 1].url[2]
    ]_vars

\* a batch with a non-image file between two images has just been uploaded
C10_Witness ==
    \E c \in 1..Len(calls) :
        /\ calls[c].files = <<"image", "other", "image">>
        /\ calls[c].results = <<"pending", "skipped", "pending">>
        /\ Len(memories) >= NumSeed + 2
        /\ memories[Len(memories)].url = <<c, 3>>
        /\ memories[Len(memories) - 1].url = <<c, 1>>
        /\ memories[Len(memories)].isAnalyzing

(***************************************************************************)
(* Gallery and world navigation: claims C2, C3, C4                         *)
(***************************************************************************)
\* C2: the committed gallery index always is an integer of [0, count - 1];
\* a pan move changes the continuous position only, never the committed
\* index; and a release moves the committed index by at most one position,
\* so it does not wrap from one end of the list to the other.
C2_GalleryIndexInRange ==
    /\ [](galleryIndex \in 0..(Len(memories) - 1))
    /\ [][(panActive' /\ panOffset' # panOffset) => galleryIndex' = galleryIndex]_vars
    /\ [][(panActive /\ ~panActive' /\ "gallery" \in mountedViews')
            => Abs(galleryIndex' - galleryIndex) <= 1]_vars

\* a pan that pulled the continuous position past the last item has been
\* released: the committed index still is the last one
C2_Witness ==
    /\ "gallery" \in mountedViews
    /\ ~panActive
    /\ dragResets > 0
    /\ galleryIndex = Len(memories) - 1
    /\ indexMV > (Len(memories) - 1) * IndexUnit

\* C3: with count >= 1 the world index stays in [0, count - 1]; a navigation
\* step or autoplay tick moves it one position forwards or backwards modulo
\* count; setActiveIndex(-1) commits count - 1 and setActiveIndex(count)
\* commits 0; with count = 0 setActiveIndex leaves the index as it is.
C3_WorldWraps ==
    /\ [](/\ worldIndex \in 0..(Len(memories) - 1)
          /\ \A count \in 1..(NumSeed + MaxFiles) : \A current \in 0..(count - 1) :
                /\ WorldSafeIndex(count, -1, current) = count - 1
                /\ WorldSafeIndex(count, count, current) = 0
                /\ WorldSafeIndex(count, current + 1, current) = (current + 1) % count
                /\ WorldSafeIndex(count, current - 1, current) = (current - 1 + count) % count
          /\ \A index \in -1..1 : WorldSafeIndex(0, index, worldIndex) = worldIndex)
    /\ [][(worldIndex' # worldIndex /\ calls' = calls)
            => \/ worldIndex' = (worldIndex + 1) % Len(memories)
               \/ worldIndex' = (worldIndex - 1 + Len(memories)) % Len(memories)]_vars

\* no upload has moved the index, and it went from the first item to the last
C3_Witness ==
    /\ calls = <<>>
    /\ "world" \in mountedViews
    /\ worldIndex = NumSeed - 1

\* C4: at most one interval timer is scheduled, and it is the one the
\* manager holds the handle of; while isPlaying is false no timer is
\* scheduled; starting play while playing replaces the timer.
C4_SingleTimer ==
    /\ [](/\ Cardinality(timers) <= 1
          /\ isPlaying => timers = {autoPlayInterval}
          /\ ~isPlaying => timers = {})
    /\ [][(isPlaying /\ isPlaying' /\ timerSeq' > timerSeq)
            => timers' = {timerSeq'} /\ autoPlayInterval \notin timers']_vars

\* play was started twice: the second timer is the only one scheduled
C4_Witness ==
    /\ isPlaying
    /\ timerSeq >= 2
    /\ timers = {timerSeq}
    /\ autoPlayInterval = timerSeq

(***************************************************************************)
(* Projection and billboarding: claims C5, C6, C7                          *)
(***************************************************************************)
\* C5: for every camera rotation the rotation of the container composed
\* with the counter-rotation of the orb is the identity.
C5_BillboardIsIdentity ==
    BillboardRotation(rotX, rotY) = ScaledIdentity(Den * Den * Den * Den)

\* C6: for every memory position and camera rotation, the projected depth
\* MemoryOrb computes is the z coordinate of the position under the
\* rotation the containers are rendered with.
C6_DepthMatchesRenderer ==
    ProjectedZ(Position(orbTheta, orbPhi), rotX, rotY)
        = MatVec(ContainerRotation(rotX, rotY), Position(orbTheta, orbPhi))[3]

\* C7: for every camera rotation, the rendered rotation takes the centre
\* direction of getFrontAndCenterPos to (0, 0, 1) times the radius, and the
\* projected depth MemoryOrb computes for it is not negative.
C7_FrontAndCentre ==
    LET centerPos == GetFrontAndCenterPos(rotX, rotY)
        pos == Position(centerPos.theta, centerPos.phi)
    IN  /\ MatVec(ContainerRotation(rotX, rotY), pos) = <<0, 0, Radius * Den * Den>>
        /\ ProjectedZ(pos, rotX, rotY) >= 0

(***************************************************************************)
(* Upload placement and ordering: claims C11, C18                          *)
(***************************************************************************)
\* C11: after a call of uploadFiles that added at least one memory, the
\* memory at the gallery index and the memory at the world index, each taken
\* in the timestamp-sorted order the view renders, is one the call added.
C11_IndexOnNewMemory ==
    [][Len(memories') > Len(memories) =>
        LET added == {memories'[k].id : k \in (Len(memories) + 1)..Len(memories')}
        IN /\ SortedMemories(memories')[galleryIndex' + 1].id \in added
           /\ SortedMemories(memories')[worldIndex' + 1].id \in added
    ]_vars

\* two images were uploaded in the millisecond of the load, so their
\* timestamps tie with that of the newest seed; both indices are on the
\* second of them
C11_Witness ==
    /\ Len(calls) = 1
    /\ clock = 0
    /\ Len(memories) = NumSeed + 2
    /\ \E k \in 1..NumSeed : memories[k].timestamp = memories[NumSeed + 2].timestamp
    /\ SortedMemories(memories)[galleryIndex + 1].url = <<1, 2>>
    /\ SortedMemories(memories)[worldIndex + 1].url = <<1, 2>>

\* C18: every memory, seeded or uploaded, has phi strictly between 0 and
\* pi, and every uploaded memory has phi in [0.1, pi - 0.1], whatever the
\* camera pitch and the jitter were at the upload.
C18_PhiAwayFromPoles ==
    \A k \in 1..Len(memories) :
        /\ memories[k].phi > 0
        /\ memories[k].phi < PI
        /\ k > NumSeed => /\ memories[k].phi >= PHI_MARGIN
                          /\ memories[k].phi <= PI - PHI_MARGIN

\* one upload was placed below the lower bound and one above the upper
\* bound before the clamp: each sits on its bound
C18_Witness ==
    /\ \E k \in (NumSeed + 1)..Len(memories) : memories[k].phi = PHI_MARGIN
    /\ \E k \in (NumSeed + 1)..Len(memories) : memories[k].phi = PI - PHI_MARGIN
    /\ CenterPhi(MAX_PITCH * 10) - SPREAD \div 2 < 0
    /\ CenterPhi(-MAX_PITCH * 10) + SPREAD \div 2 - 1 > PI

(***************************************************************************)
(* Depth styling: claim C12                                                *)
(***************************************************************************)
\* C12: the depth-based opacity of the orb is at its floor 0.4 when
\* z_final <= -0.8 * radius, is 1 when z_final >= 0.8 * radius, and does not
\* decrease when z_final grows (z_final and the radius in 1 / Den^2 pixels).
C12_OpacitySaturates ==
    LET radius == Radius * Den * Den
        z == ProjectedZ(Position(orbTheta, orbPhi), rotX, rotY)
    IN  /\ z * 10 <= -8 * radius => DynamicOpacity(z, radius) = OPACITY_FLOOR
        /\ z * 10 >= 8 * radius => DynamicOpacity(z, radius) = OPACITY_FULL
        /\ DynamicOpacity(z - Den, radius) <= DynamicOpacity(z, radius)
        /\ DynamicOpacity(z, radius) <= DynamicOpacity(z + Den, radius)

(***************************************************************************)
(* Autoplay and unmounting: claim C14                                      *)
(***************************************************************************)
\* C14: whenever WorldView is not mounted no interval timer is scheduled,
\* the manager holds no handle and isPlaying is false; the step that
\* unmounts WorldView while it plays leaves no timer behind.
C14_NoTimerWithoutWorldView ==
    /\ []("world" \notin mountedViews
            => /\ timers = {}
               /\ autoPlayInterval = Null
               /\ ~isPlaying)
    /\ [][("world" \in mountedViews /\ "world" \notin mountedViews' /\ isPlaying)
            => timers' = {} /\ ~isPlaying']_vars

\* WorldView was left and has unmounted after autoplay had been started
\* twice; the last navigation was at the end of the list
C14_Witness ==
    /\ "world" \notin mountedViews
    /\ viewMode = "orb"
    /\ timerSeq >= 2
    /\ timers = {}
    /\ worldIndex = Len(memories) - 1

(***************************************************************************)
(* Concurrency of the caption requests: claim C15                          *)
(***************************************************************************)
\* C15: within one uploadFiles call the requests of all accepted images are
\* in flight together: every image whose request has not resolved yet has
\* had its request issued (the analysis loop has reached that file), so it
\* waits for no other image of the batch.
C15_RequestsInFlightTogether ==
    \A c \in 1..Len(calls) : \A i \in ImagesOf(c) :
        calls[c].results[i] = "pending" => calls[c].i >= i

(***************************************************************************)
(* Selection and expand: claims C13, C16, C17                              *)
(***************************************************************************)
\* the memory with that id
MemoryOf(mems, id) == mems[CHOOSE k \in 1..Len(mems) : mems[k].id = id]

\* C13: when an expand call made with the description d gets a non-empty
\* text t, the description written is d followed directly by t if the last
\* character of d is a CJK character, and d, one space, t otherwise.  A CJK
\* character is a character of one of the CJK blocks of Unicode: CJK
\* Symbols and Punctuation (U+3000..U+303F), CJK Unified Ideographs
\* Extension A (U+3400..U+4DBF), CJK Unified Ideographs (U+4E00..U+9FFF).
C13_AppendSpacing ==
    [][\A n \in 1..Len(expands) :
          (expands[n].phase = "pending" /\ expands'[n].phase = "appended") =>
            LET d == expands[n].currentDesc
                new == MemoryOf(memories', expands[n].id).description
                t == << new[Len(new)] >>
                IsCjkCharacter(ch) ==
                    \/ ch \in 12288..12351
                    \/ ch \in 13312..19903
                    \/ ch \in 19968..40959
            IN  new = IF IsCjkCharacter(LastChar(d))
                      THEN d \o t
                      ELSE d \o << <<"space", 0, 0>> >> \o t
    ]_vars

\* C16: when the awaited chain of an expand call rejects or gives the empty
\* text no memory changes; isProcessing is false after every return of the
\* call and is true only while a call waits; a blank prompt starts nothing.
C16_ExpandFailureIsSilent ==
    /\ [](/\ isProcessing => \E n \in 1..Len(expands) : expands[n].phase = "pending"
          /\ ~StartsExpand("", isProcessing))
    /\ [][\A n \in 1..Len(expands) :
            /\ (expands[n].phase = "pending" /\ expands'[n].phase \in {"empty", "reject"})
                  => memories' = memories
            /\ (expands[n].phase = "pending" /\ expands'[n].phase # "pending")
                  => ~isProcessing'
       ]_vars

\* one expand call was rejected and one got the empty text; the memory they
\* were made for has the description it had, nothing is processing
C16_Witness ==
    /\ Len(expands) = 2
    /\ expands[1].phase = "reject"
    /\ expands[2].phase = "empty"
    /\ expands[1].id = expands[2].id
    /\ MemoryOf(memories, expands[1].id).description = expands[1].currentDesc
    /\ ~isProcessing

\* C17: selectedMemoryId is Null or the id of a memory of the collection;
\* a selection stores the id of the memory picked, whatever was selected;
\* a change of view leaves the selection as it is.
C17_SelectionValid ==
    /\ [](\/ selectedMemoryId = Null
          \/ \E k \in 1..Len(memories) : memories[k].id = selectedMemoryId)
    /\ [][(viewMode' # viewMode \/ mountedViews' # mountedViews)
            => selectedMemoryId' = selectedMemoryId]_vars
    /\ [][(selectedMemoryId' # selectedMemoryId /\ selectedMemoryId' # Null)
            => \E k \in 1..Len(memories) : memories'[k].id = selectedMemoryId']_vars

\* the first memory was selected on the sphere, the view was changed to the
\* world view and the sphere has unmounted: the selection is still there,
\* and it is not the memory the world or the gallery index points at
C17_Witness ==
    /\ viewMode = "world"
    /\ mountedViews = {"world"}
    /\ selectedMemoryId = memories[1].id
    /\ ActiveMemory(memories, worldIndex).id # selectedMemoryId
    /\ ActiveMemory(memories, galleryIndex).id # selectedMemoryId

(***************************************************************************)
(* Gallery release: claims C19, C20                                        *)
(***************************************************************************)
\* a pan gesture on the mounted gallery ends in this step
Released == panActive /\ ~panActive' /\ "gallery" \in mountedViews'

\* C19: after every drag end the target of the continuous position is the
\* committed index, whether the release stepped the index or left it where
\* it was, so that the spring settles on the committed integer.
C19_ReleaseSnapsToCommitted ==
    [][Released => indexMV' = galleryIndex' * IndexUnit]_vars

\* C20: a release asks for activeIndex + 1 when the upward velocity is above
\* 300 or the upward offset above a quarter of the item spacing, this test
\* coming first; for activeIndex - 1 when the downward velocity or offset
\* is above the same thresholds; for activeIndex otherwise; and the
\* committed index is the request clamped, at most one step away.
C20_ReleaseCommit ==
    /\ [](\A o \in PanOffsets \cup {0} : \A v \in PanVelocities :
            LET up == -v > 300 \/ -o * 4 > ITEM_SPACING
                down == v > 300 \/ o * 4 > ITEM_SPACING
                target == PanEndTarget(galleryIndex, o, v)
            IN /\ up => target = galleryIndex + 1
               /\ (~up /\ down) => target = galleryIndex - 1
               /\ (~up /\ ~down) => target = galleryIndex)
    /\ [][Released =>
            /\ galleryIndex' \in 0..(Len(memories) - 1)
            /\ Abs(galleryIndex' - galleryIndex) <= 1
            /\ -panOffset * 4 > ITEM_SPACING
                  => galleryIndex' = Min(galleryIndex + 1, Len(memories) - 1)
            /\ (-panOffset * 4 <= ITEM_SPACING /\ panOffset * 4 <= ITEM_SPACING)
                  => \E v \in PanVelocities :
                        galleryIndex' = Max(0, Min(Len(memories) - 1,
                                                   PanEndTarget(galleryIndex, panOffset, v)))
       ]_vars

\* a drag of the first item was released and stepped the index to the
\* second item; the click-suppressing flag is still set
C20_Witness ==
    /\ calls = <<>>
    /\ "gallery" \in mountedViews
    /\ ~panActive
    /\ isDragging
    /\ dragResets > 0
    /\ galleryIndex = 1
    /\ indexMV = IndexUnit

(***************************************************************************)
(* Gallery wheel: claim C21                                                *)
(***************************************************************************)
\* C21: when a wheel event takes the accumulated delta across the threshold
\* and the index is committed, the index moves by as many steps as whole
\* thresholds fit in the accumulated delta, in its direction, and the
\* accumulator keeps the remainder (same direction, magnitude below the
\* threshold).
C21_WheelStepsAndRemainder ==
    [][("gallery" \in mountedViews /\ "gallery" \in mountedViews'
          /\ wheelAccumulator # 0 /\ wheelAccumulator' = 0
          /\ galleryIndex' # galleryIndex) =>
        \E deltaY \in WheelDeltas :
            LET total == wheelAccumulator + deltaY
                steps == Abs(total) \div WHEEL_THRESHOLD
            IN  /\ Abs(total) > WHEEL_THRESHOLD
                /\ galleryIndex' = Max(0, Min(Len(memories) - 1,
                                              galleryIndex + Sign(total) * steps))
                /\ wheelAccumulator' = Sign(total) * (Abs(total) % WHEEL_THRESHOLD)
    ]_vars

\* C22: while gravity mode is on and the orb is not being dragged, both of
\* its raw rotation axes are multiples of 360 degrees; enabling the mode
\* takes each axis to a nearest multiple of 360, a release while the mode is
\* on does so again, and a release while the mode is off leaves the rotation
\* as it was dragged.
C22_GravitySnaps ==
    /\ [](("orb" \in mountedViews /\ isGravityMode /\ ~isDraggingRef) =>
             /\ orbRotationX % (FULL_TURN * 10) = 0
             /\ orbRotationY % (FULL_TURN * 10) = 0)
    /\ [][LET Nearest(val, snapped) ==
                  /\ snapped % (FULL_TURN * 10) = 0
                  /\ 2 * Abs(snapped - val) <= FULL_TURN * 10
              Snapped == /\ Nearest(orbRotationX, orbRotationX')
                         /\ Nearest(orbRotationY, orbRotationY')
          IN  /\ ("orb" \in mountedViews /\ ~isGravityMode /\ isGravityMode') => Snapped
              /\ ("orb" \in mountedViews' /\ isDraggingRef /\ ~isDraggingRef') =>
                    IF isGravityMode
                    THEN Snapped
                    ELSE /\ orbRotationX' = orbRotationX
                         /\ orbRotationY' = orbRotationY
         ]_vars

\* the orb was dragged half a turn and more away and released in gravity mode
C22_Witness ==
    /\ "orb" \in mountedViews
    /\ isGravityMode
    /\ ~isDraggingRef
    /\ orbRotationX = FULL_TURN * 10
    /\ orbRotationY = -(FULL_TURN * 10)

\* C23: in the mounted sphere view the raw pitch stays within [-85, 85]
\* degrees whatever the pointer does, while the yaw goes beyond that range;
\* the rotation changes only in a step taken while Dragging, a step that
\* enters or leaves Dragging does not rotate, and while Idle both axes stay
\* as they are.
C23_PitchClampedDragOnly ==
    /\ [](("orb" \in mountedViews) =>
             (rotationX >= -MAX_PITCH * 10 /\ rotationX <= MAX_PITCH * 10))
    /\ [][("orb" \in mountedViews /\ "orb" \in mountedViews') =>
             /\ (~orbViewDragging => <<rotationX, rotationY>>' = <<rotationX, rotationY>>)
             /\ (orbViewDragging' # orbViewDragging =>
                    <<rotationX, rotationY>>' = <<rotationX, rotationY>>)
         ]_vars

\* a drag has taken the pitch to its upper limit and the yaw past 85
\* degrees, and has ended
C23_Witness ==
    /\ "orb" \in mountedViews
    /\ ~orbViewDragging
    /\ rotationX = MAX_PITCH * 10
    /\ rotationY > MAX_PITCH * 10

\* C24: an autoplay tick happens only while isPlaying is true (no interval
\* is scheduled while it is false) and takes the world index one position
\* further, from the last position to 0; hence, if autoplay stays on from
\* some moment, every position of the collection is shown again and again.
C24_AutoPlayCycles ==
    /\ [](~isPlaying => timers = {})
    /\ [][(\E t \in timers : AutoPlayTick(t)) =>
             (isPlaying /\ worldIndex' = (worldIndex + 1) % Len(memories))]_vars
    /\ \A i \in 0..(NumSeed + MaxFiles - 1) :
          <>[]isPlaying => []<>(i < Len(memories) => worldIndex = i)

\* autoplay is on and has wrapped around to the first position after an upload
C24_Witness ==
    /\ isPlaying
    /\ timers # {}
    /\ calls # <<>>
    /\ worldIndex = 0

\* C25: the navigation states of the views are independent.  A gallery
\* navigation step leaves the world index, isPlaying and the collection as
\* they are; a world navigation step or an autoplay tick leaves the gallery
\* index and the collection as they are; setViewMode changes viewMode and
\* leaves the collection and both indices as they are.
C25_ViewsIndependent ==
    [][ /\ (GalleryNavigateNext \/ GalleryNavigatePrev) =>
              /\ galleryIndex' # galleryIndex
              /\ UNCHANGED <<worldIndex, isPlaying, memories>>
        /\ (WorldNavigateNext \/ WorldNavigatePrev \/ \E t \in timers : AutoPlayTick(t)) =>
              UNCHANGED <<galleryIndex, memories>>
        /\ (\E mode \in ViewModes : SetViewMode(mode)) =>
              /\ viewMode' # viewMode
              /\ UNCHANGED <<memories, galleryIndex, worldIndex>>
      ]_vars

\* the gallery is shown on one item while the slideshow, still mounted,
\* plays on another
C25_Witness ==
    /\ viewMode = "gallery"
    /\ isPlaying
    /\ galleryIndex > 0
    /\ worldIndex > 0
    /\ galleryIndex # worldIndex

\* C26: a caption that was written to a memory is still part of that
\* memory's description once every expand request issued for the memory has
\* completed, also when the caption landed while a request was in flight.
C26_CaptionSurvivesExpand ==
    \A c \in 1..Len(calls) : \A i \in ImagesOf(c) :
        (/\ calls[c].results[i] = "text"
         /\ RecordOf(c, i) # 0
         /\ \A n \in 1..Len(expands) :
               expands[n].id = memories[RecordOf(c, i)].id => expands[n].phase # "pending")
        => \E p \in 1..Len(memories[RecordOf(c, i)].description) :
               memories[RecordOf(c, i)].description[p] = CaptionText(c, i)[1]

\* C27: whenever the sphere view is mounted, the cameraRotation of the orb
\* store equals the raw rotation of the OrbView controller, also after the
\* view was left and mounted again with its controller back at (0, 0).
C27_StoreFollowsController ==
    "orb" \in mountedViews => cameraRotation = <<rotationX, rotationY>>

\* C28: an uploadFiles call on a non-empty batch without any image file
\* leaves the memory collection, the gallery index and the world index as
\* they are.
C28_ImagelessUploadChangesNothing ==
    [][(\E files \in Batches :
           /\ \A j \in 1..Len(files) : ~IsImage(files[j])
           /\ Upload(files, 1, 0)) =>
        UNCHANGED <<memories, galleryIndex, worldIndex>>]_vars

\* C29: for every integer argument i, also below -count and from 2 * count
\* on, setActiveIndex(i) of the world manager commits an index between 0 and
\* count - 1 that is congruent to i modulo count.
C29_WorldIndexCongruent ==
    [][\A index \in -MaxArg..MaxArg :
          WorldSetActiveIndex(index) =>
              /\ worldIndex' \in 0..(Len(memories) - 1)
              /\ (worldIndex' - index) % Len(memories) = 0]_vars

\* C30: in the gallery the drag flag is true during every pan and for as
\* long as a reset timeout of a pan is pending after it, also when a pan
\* starts within 100 ms of the end of the one before: the timeout of an
\* earlier pan never clears the flag during or right after a later pan.
C30_DragFlagCoversPan ==
    "gallery" \in mountedViews => ((panActive \/ dragResets > 0) => isDragging)
====
